---- MODULE Spec2Model ----
(***************************************************************************)
(* A model of swinir_easy_runner.py: the interactive driver main() and its *)
(* steps download_models, prepare_test_images and run_denoising, with the  *)
(* file system, the HTTP server, the console and the external inference    *)
(* program main_test_swinir.py as the environment.                         *)
(*                                                                         *)
(* Text whose characters the code inspects (file names, the custom noise   *)
(* line, the captured stderr) is a tuple of one-character strings.         *)
(***************************************************************************)
EXTENDS Integers, Sequences, FiniteSets, TLC

(***************************************************************************)
(* Bounds of the model.                                                    *)
(***************************************************************************)
\* How many times download_models is run in a row on the same disk.
MaxRuns == 3

(***************************************************************************)
(* str methods                                                             *)
(***************************************************************************)
UpperLetters ==
    <<"A","B","C","D","E","F","G","H","I","J","K","L","M",
      "N","O","P","Q","R","S","T","U","V","W","X","Y","Z">>

LowerLetters ==
    <<"a","b","c","d","e","f","g","h","i","j","k","l","m",
      "n","o","p","q","r","s","t","u","v","w","x","y","z">>

LetterIndex(letters, c) == CHOOSE i \in DOMAIN letters : letters[i] = c

LowerChar(c) ==
    IF \E i \in DOMAIN UpperLetters : UpperLetters[i] = c
    THEN LowerLetters[LetterIndex(UpperLetters, c)]
    ELSE c

UpperChar(c) ==
    IF \E i \in DOMAIN LowerLetters : LowerLetters[i] = c
    THEN UpperLetters[LetterIndex(LowerLetters, c)]
    ELSE c

\* str.lower()
StrLower(s) == [i \in 1..Len(s) |-> LowerChar(s[i])]

\* str.upper()
StrUpper(s) == [i \in 1..Len(s) |-> UpperChar(s[i])]

\* sub in s
Contains(s, sub) ==
    \E i \in 0..(Len(s) - Len(sub)) : SubSeq(s, i + 1, i + Len(sub)) = sub

EndsWith(s, suffix) ==
    /\ Len(s) >= Len(suffix)
    /\ SubSeq(s, Len(s) - Len(suffix) + 1, Len(s)) = suffix

Digits == <<"0","1","2","3","4","5","6","7","8","9">>

IsDigit(c) == \E i \in DOMAIN Digits : Digits[i] = c

DigitValue(c) == (CHOOSE i \in DOMAIN Digits : Digits[i] = c) - 1

RECURSIVE NatToStr(_)
NatToStr(n) ==
    IF n < 10 THEN <<Digits[n + 1]>>
    ELSE NatToStr(n \div 10) \o <<Digits[(n % 10) + 1]>>

\* str(noise) of an int
IntToStr(n) == IF n < 0 THEN <<"-">> \o NatToStr(0 - n) ELSE NatToStr(n)

RECURSIVE DigitsValue(_, _)
DigitsValue(s, acc) ==
    IF s = <<>> THEN acc
    ELSE DigitsValue(Tail(s), 10 * acc + DigitValue(Head(s)))

Unsigned(tok) ==
    IF tok # <<>> /\ Head(tok) \in {"-", "+"} THEN Tail(tok) ELSE tok

\* int(x) accepts x: an optional sign and one or more decimal digits
\* (leading zeros allowed); anything else raises ValueError.
IsIntLiteral(tok) ==
    /\ Unsigned(tok) # <<>>
    /\ \A i \in DOMAIN Unsigned(tok) : IsDigit(Unsigned(tok)[i])

\* int(x)
ParseInt(tok) ==
    IF tok # <<>> /\ Head(tok) = "-"
    THEN 0 - DigitsValue(Unsigned(tok), 0)
    ELSE DigitsValue(Unsigned(tok), 0)

RECURSIVE SplitFrom(_, _, _)
SplitFrom(s, cur, acc) ==
    IF s = <<>> THEN (IF cur = <<>> THEN acc ELSE Append(acc, cur))
    ELSE IF Head(s) = " "
         THEN SplitFrom(Tail(s), <<>>, IF cur = <<>> THEN acc ELSE Append(acc, cur))
         ELSE SplitFrom(Tail(s), Append(cur, Head(s)), acc)

\* str.split(): the maximal runs of non-blank characters
Split(s) == SplitFrom(s, <<>>, <<>>)

(***************************************************************************)
(* Paths                                                                   *)
(***************************************************************************)
\* model_zoo/swinir/005_colorDN_DFWB_s128w8_SwinIR-M_noise<level>.pth,
\* <level> the decimal text in the file name.
WeightFile(level) ==
    <<"model_zoo/swinir/005_colorDN_DFWB_s128w8_SwinIR-M_noise", level, ".pth">>

\* The dict of download_models, in insertion order (the order of .items()).
models ==
    << WeightFile(<<"1","5">>), WeightFile(<<"2","5">>), WeightFile(<<"5","0">>) >>

ModelFiles == {models[i] : i \in DOMAIN models}

\* results/swinir_color_dn_noise{noise}
OldDir(noise) == <<"results/swinir_color_dn_noise", IntToStr(noise)>>

\* results/project_denoised_noise{noise}
NewDir(noise) == <<"results/project_denoised_noise", IntToStr(noise)>>

\* A mapping with one more (or one replaced) entry: d[k] = v
Store(d, k, v) == [x \in DOMAIN d \cup {k} |-> IF x = k THEN v ELSE d[x]]

\* A mapping without the entry k
Remove(d, k) == [x \in DOMAIN d \ {k} |-> d[x]]

NoEntries == <<>>

VARIABLES
    pc,               \* where the program is
    zoo,              \* model_zoo/swinir: file -> "partial" | "complete", for the files on disk
    dl_i,             \* download_models: position in models
    requests,         \* download_models: the files an HTTP GET was issued for, this run
    dl_ret,           \* what download_models returned ("True", "False"), "none" before it has
    dl_failed,        \* position in requests of the request that raised, 0 if none did
    skipped,          \* the files download_models found on disk and skipped, this run
    interrupted,      \* the files whose write was cut short by an error, in any run
    runs,             \* number of the current run of download_models
    posix,            \* whether glob patterns match case-sensitively (POSIX) or not (Windows)
    folder,           \* the file names in testsets/project_images
    images,           \* prepare_test_images: the list built by the globs
    prep_ret,         \* what prepare_test_images returned ("True", "False"), "none" before it has
    noise_levels,     \* the requested noise levels
    use_tile,
    nl_i,             \* run_denoising: position in noise_levels
    results_summary,  \* run_denoising: noise -> directory
    invocations,      \* the command lines launched, in launch order
    active,           \* number of subprocesses launched and not yet exited
    proc,             \* the exit code and stderr of the subprocess that has just exited
    outcomes,         \* per finished invocation: its noise level, exit code, and whether old_dir existed
    fs,               \* results/: directory -> the files in it, for the directories on disk
    advised,          \* the invocations after which the tile advice was printed
    steps,            \* the steps main has entered, in order
    ensemble_written  \* whether create_ensemble.py was written

vars ==
    << pc, zoo, dl_i, requests, dl_ret, dl_failed, skipped, interrupted, runs,
       posix, folder, images, prep_ret, noise_levels, use_tile, nl_i,
       results_summary, invocations, active, proc, outcomes, fs, advised,
       steps, ensemble_written >>

dlVars == << zoo, dl_i, requests, dl_ret, dl_failed, skipped, interrupted, runs >>

imgVars == << posix, folder, images, prep_ret >>

runVars ==
    << noise_levels, use_tile, nl_i, results_summary, invocations, active,
       proc, outcomes, fs, advised >>

mainVars == << steps, ensemble_written >>

NoProc == [rc |-> 0, stderr |-> <<>>]

\* The values every run starts from, whatever is on disk.
Fresh ==
    /\ dl_i = 1
    /\ requests = <<>>
    /\ dl_ret = "none"
    /\ dl_failed = 0
    /\ skipped = {}
    /\ interrupted = {}
    /\ runs = 1
    /\ images = <<>>
    /\ prep_ret = "none"
    /\ noise_levels = <<>>
    /\ use_tile = FALSE
    /\ nl_i = 1
    /\ results_summary = NoEntries
    /\ invocations = <<>>
    /\ active = 0
    /\ proc = NoProc
    /\ outcomes = <<>>
    /\ advised = {}
    /\ steps = <<>>
    /\ ensemble_written = FALSE

(***************************************************************************)
(* download_models                                                         *)
(***************************************************************************)
Exists(path) == path \in DOMAIN zoo

CurModel == models[dl_i]

\* The file is on disk and is fetched all the same.
DownloadSkip_Refetches ==
    /\ pc = "download"
    /\ dl_i <= Len(models)
    /\ Exists(CurModel)
    /\ requests' = Append(requests, CurModel)
    /\ zoo' = Store(zoo, CurModel, "complete")
    /\ dl_i' = dl_i + 1
    /\ UNCHANGED << pc, dl_ret, dl_failed, skipped, interrupted, runs >>
    /\ UNCHANGED << imgVars, runVars, mainVars >>

\* os.path.exists(model_path): continue
DownloadSkip ==
    /\ pc = "download"
    /\ dl_i <= Len(models)
    /\ Exists(CurModel)
    /\ skipped' = skipped \cup {CurModel}
    /\ dl_i' = dl_i + 1
    /\ UNCHANGED << pc, zoo, requests, dl_ret, dl_failed, interrupted, runs >>
    /\ UNCHANGED << imgVars, runVars, mainVars >>

\* requests.get, raise_for_status, and the whole body written
DownloadOk ==
    /\ pc = "download"
    /\ dl_i <= Len(models)
    /\ ~Exists(CurModel)
    /\ requests' = Append(requests, CurModel)
    /\ zoo' = Store(zoo, CurModel, "complete")
    /\ dl_i' = dl_i + 1
    /\ UNCHANGED << pc, dl_ret, dl_failed, skipped, interrupted, runs >>
    /\ UNCHANGED << imgVars, runVars, mainVars >>

\* The error is logged and the loop goes on to the next file.
DownloadRequestFails_Continues ==
    /\ pc = "download"
    /\ dl_i <= Len(models)
    /\ ~Exists(CurModel)
    /\ requests' = Append(requests, CurModel)
    /\ dl_failed' = Len(requests) + 1
    /\ dl_i' = dl_i + 1
    /\ UNCHANGED << pc, zoo, dl_ret, skipped, interrupted, runs >>
    /\ UNCHANGED << imgVars, runVars, mainVars >>

\* requests.get or raise_for_status raises: the file was never opened
DownloadRequestFails ==
    /\ pc = "download"
    /\ dl_i <= Len(models)
    /\ ~Exists(CurModel)
    /\ requests' = Append(requests, CurModel)
    /\ dl_failed' = Len(requests) + 1
    /\ dl_ret' = "False"
    /\ pc' = "dl_returned"
    /\ UNCHANGED << zoo, dl_i, skipped, interrupted, runs >>
    /\ UNCHANGED << imgVars, runVars, mainVars >>

\* The truncated file is removed when the write is cut short.
CutShort_Removed(disk, path) == Remove(disk, path)

\* The disk after a write that an error cut short: the with block closes the
\* file and nothing removes it.
CutShort(disk, path) == Store(disk, path, "partial")

\* iter_content raises after open(model_path, 'wb')
DownloadInterrupted ==
    /\ pc = "download"
    /\ dl_i <= Len(models)
    /\ ~Exists(CurModel)
    /\ requests' = Append(requests, CurModel)
    /\ zoo' = CutShort(zoo, CurModel)
    /\ interrupted' = interrupted \cup {CurModel}
    /\ dl_failed' = Len(requests) + 1
    /\ dl_ret' = "False"
    /\ pc' = "dl_returned"
    /\ UNCHANGED << dl_i, skipped, runs >>
    /\ UNCHANGED << imgVars, runVars, mainVars >>

\* the loop is over: return True
DownloadReturn ==
    /\ pc = "download"
    /\ dl_i > Len(models)
    /\ dl_ret' = "True"
    /\ pc' = "dl_returned"
    /\ UNCHANGED << zoo, dl_i, requests, dl_failed, skipped, interrupted, runs >>
    /\ UNCHANGED << imgVars, runVars, mainVars >>

\* The script is started again on the same disk.
DownloadAgain ==
    /\ pc = "dl_returned"
    /\ runs < MaxRuns
    /\ runs' = runs + 1
    /\ pc' = "download"
    /\ dl_i' = 1
    /\ requests' = <<>>
    /\ dl_ret' = "none"
    /\ dl_failed' = 0
    /\ skipped' = {}
    /\ UNCHANGED << zoo, interrupted, imgVars, runVars, mainVars >>

DLInit ==
    /\ Fresh
    /\ pc = "download"
    /\ zoo = NoEntries
    /\ posix = TRUE
    /\ folder = {}
    /\ fs = NoEntries

DLNext ==
    \/ DownloadSkip
    \/ DownloadOk
    \/ DownloadRequestFails
    \/ DownloadInterrupted
    \/ DownloadReturn
    \/ DownloadAgain

SpecDL == DLInit /\ [][DLNext]_vars

(***************************************************************************)
(* prepare_test_images                                                     *)
(***************************************************************************)
image_extensions ==
    << <<".","j","p","g">>, <<".","j","p","e","g">>, <<".","p","n","g">>,
       <<".","b","m","p">>, <<".","t","i","f","f">> >>

\* Whether Path.glob("*" + ext) yields the entry called name: the name ends
\* with ext, compared as is on POSIX and ignoring case on Windows.
GlobMatches(name, ext) ==
    IF posix THEN EndsWith(name, ext)
    ELSE EndsWith(StrLower(name), StrLower(ext))

\* list(test_dir.glob("*" + ext)): each matching entry once
Glob(ext) == {name \in folder : GlobMatches(name, ext)}

RECURSIVE ListOf(_)
ListOf(set) ==
    IF set = {} THEN <<>>
    ELSE LET x == CHOOSE y \in set : TRUE IN <<x>> \o ListOf(set \ {x})

\* The loop over image_extensions: two globs per extension, appended.
RECURSIVE ScanFrom(_)
ScanFrom(k) ==
    IF k > Len(image_extensions) THEN <<>>
    ELSE ListOf(Glob(image_extensions[k]))
             \o ListOf(Glob(StrUpper(image_extensions[k])))
             \o ScanFrom(k + 1)

FileNames ==
    { <<"a",".","j","p","g">>, <<"b",".","P","N","G">>, <<"c",".","t","x","t">>,
      <<"d",".","b","m","p">>, <<"e",".","J","p","g">>, <<"f",".","J","P","E","G">>,
      <<"g",".","t","i","f","f">>, <<"h",".","t","i","f">> }

\* What the user may put into the folder while the script waits for Enter.
Placed == { {}, {<<"d",".","b","m","p">>} }

\* not any(test_dir.iterdir()): the script asks for images and waits for Enter
PrepareAsk ==
    /\ pc = "prepare"
    /\ folder = {}
    /\ \E put \in Placed : folder' = put
    /\ pc' = "scan"
    /\ UNCHANGED << posix, images, prep_ret, dlVars, runVars, mainVars >>

PrepareFound ==
    /\ pc = "prepare"
    /\ folder # {}
    /\ pc' = "scan"
    /\ UNCHANGED << imgVars, dlVars, runVars, mainVars >>

\* the globs, the count printed, return len(images) > 0
PrepareScan ==
    /\ pc = "scan"
    /\ images' = ScanFrom(1)
    /\ prep_ret' = IF Len(images') > 0 THEN "True" ELSE "False"
    /\ pc' = "prep_returned"
    /\ UNCHANGED << posix, folder, dlVars, runVars, mainVars >>

ImgInit ==
    /\ Fresh
    /\ pc = "prepare"
    /\ zoo = NoEntries
    /\ fs = NoEntries
    /\ posix \in BOOLEAN
    /\ folder \in SUBSET FileNames

ImgNext == PrepareAsk \/ PrepareFound \/ PrepareScan

SpecImg == ImgInit /\ [][ImgNext]_vars

(***************************************************************************)
(* run_denoising                                                           *)
(***************************************************************************)
\* The command line: --noise str(noise), --model_path ..., and the tile
\* arguments when use_tile.
Cmd(noise, tile) ==
    [ noise      |-> IntToStr(noise),
      model_path |-> WeightFile(IntToStr(noise)),
      folder_gt  |-> "testsets/project_images",
      tile       |-> IF tile THEN <<"--tile", "400", "--tile_overlap", "32">> ELSE <<>> ]

CurNoise == noise_levels[nl_i]

\* subprocess.run starts the program
RunLaunch ==
    /\ pc = "denoise"
    /\ nl_i <= Len(noise_levels)
    /\ invocations' = Append(invocations, Cmd(CurNoise, use_tile))
    /\ active' = active + 1
    /\ pc' = "running"
    /\ UNCHANGED << noise_levels, use_tile, nl_i, results_summary, proc,
                    outcomes, fs, advised, dlVars, imgVars, mainVars >>

StderrTexts ==
    { <<>>,
      <<"C","U","D","A"," ","e","r","r","o","r">>,
      <<"O","u","t"," ","O","f"," ","M","e","m","o","r","y">>,
      <<"K","i","l","l","e","d">> }

\* What the external program leaves in its output directory: nothing, its
\* files beside what the directory held, or its files alone.  A file is
\* named by the invocation that wrote it (0: a run before this one).
ProgramWrites == {"nothing", "adds", "replaces"}

Written(how, dir, tag) ==
    CASE how = "nothing"  -> fs
      [] how = "adds"     -> Store(fs, dir, (IF dir \in DOMAIN fs THEN fs[dir] ELSE {}) \cup {tag})
      [] how = "replaces" -> Store(fs, dir, {tag})

\* The external program runs and exits: the script sees its exit code and
\* stderr, and the disk holds whatever the program wrote.
ProgramExit ==
    /\ pc = "running"
    /\ \E rc \in {0, 1}, how \in ProgramWrites, err \in StderrTexts :
          /\ rc = 0 => err = <<>>
          /\ proc' = [rc |-> rc, stderr |-> err]
          /\ fs' = Written(how, OldDir(CurNoise), Len(invocations))
    /\ active' = active - 1
    /\ pc' = "exited"
    /\ UNCHANGED << noise_levels, use_tile, nl_i, results_summary, invocations,
                    outcomes, advised, dlVars, imgVars, mainVars >>

\* shutil.rmtree(path)
RmTree(disk, path) == Remove(disk, path)

\* shutil.move(src, dst): a rename when dst does not exist; into dst when
\* dst is a directory, whose own files stay.
Move(disk, src, dst) ==
    IF dst \in DOMAIN disk
    THEN Store(Remove(disk, src), dst, disk[dst] \cup disk[src])
    ELSE Store(Remove(disk, src), dst, disk[src])

\* The destination is never removed before the move.
Cleared_Kept(disk, new_dir) == disk

\* if os.path.exists(new_dir): shutil.rmtree(new_dir)
Cleared(disk, new_dir) ==
    IF new_dir \in DOMAIN disk THEN RmTree(disk, new_dir) ELSE disk

\* An entry is recorded whether or not the output directory was found.
Recorded_Always(summary, noise, new_dir, found) == Store(summary, noise, new_dir)

\* results_summary[noise] = new_dir, inside if os.path.exists(old_dir)
Recorded(summary, noise, new_dir, found) ==
    IF found THEN Store(summary, noise, new_dir) ELSE summary

\* What the handlers note of the invocation that has just ended.
Outcome ==
    [ noise   |-> CurNoise,
      rc      |-> proc.rc,
      found   |-> OldDir(CurNoise) \in DOMAIN fs,
      had_new |-> NewDir(CurNoise) \in DOMAIN fs ]

\* the try block after subprocess.run returned with exit code 0
RunSucceeded ==
    /\ pc = "exited"
    /\ proc.rc = 0
    /\ LET old_dir == OldDir(CurNoise)
           new_dir == NewDir(CurNoise)
       IN  /\ fs' = IF old_dir \in DOMAIN fs
                     THEN Move(Cleared(fs, new_dir), old_dir, new_dir)
                     ELSE fs
           /\ results_summary' =
                  Recorded(results_summary, CurNoise, new_dir, old_dir \in DOMAIN fs)
    /\ outcomes' = Append(outcomes, Outcome)
    /\ nl_i' = nl_i + 1
    /\ proc' = NoProc
    /\ pc' = "denoise"
    /\ UNCHANGED << noise_levels, use_tile, invocations, active, advised,
                    dlVars, imgVars, mainVars >>

\* "out of memory" in e.stderr.lower() or "cuda" in e.stderr.lower()
TileAdvice(stderr) ==
    \/ Contains(StrLower(stderr), <<"o","u","t"," ","o","f"," ","m","e","m","o","r","y">>)
    \/ Contains(StrLower(stderr), <<"c","u","d","a">>)

\* The loop is left when the error text suggests tiling.
AfterFailure_Stops(stderr) ==
    IF TileAdvice(stderr) THEN "run_returned" ELSE "denoise"

\* Where the loop goes after the except block: to the next noise level.
AfterFailure(stderr) == "denoise"

\* except subprocess.CalledProcessError: the messages, then the next level
RunFailed ==
    /\ pc = "exited"
    /\ proc.rc # 0
    /\ advised' = IF TileAdvice(proc.stderr) THEN advised \cup {Len(invocations)} ELSE advised
    /\ outcomes' = Append(outcomes, Outcome)
    /\ nl_i' = nl_i + 1
    /\ proc' = NoProc
    /\ pc' = AfterFailure(proc.stderr)
    /\ UNCHANGED << noise_levels, use_tile, results_summary, invocations, active,
                    fs, dlVars, imgVars, mainVars >>

\* return results_summary
RunReturn ==
    /\ pc = "denoise"
    /\ nl_i > Len(noise_levels)
    /\ pc' = "run_returned"
    /\ UNCHANGED << runVars, dlVars, imgVars, mainVars >>

(***************************************************************************)
(* main                                                                    *)
(***************************************************************************)
SetupDirectories ==
    /\ pc = "main"
    /\ steps' = Append(steps, "setup")
    /\ pc' = "call_download"
    /\ UNCHANGED << ensemble_written, dlVars, imgVars, runVars >>

CallDownload ==
    /\ pc = "call_download"
    /\ steps' = Append(steps, "download")
    /\ pc' = "download"
    /\ UNCHANGED << ensemble_written, dlVars, imgVars, runVars >>

\* Whether main goes on after download_models returned ret.
GoesOn_Always(ret) == TRUE

GoesOn(ret) == ret = "True"

\* if not download_models(): return; then step 3
AfterDownload ==
    /\ pc = "dl_returned"
    /\ IF GoesOn(dl_ret)
       THEN /\ steps' = Append(steps, "images")
            /\ pc' = "prepare"
       ELSE /\ pc' = "returned_early"
            /\ UNCHANGED steps
    /\ UNCHANGED << ensemble_written, dlVars, imgVars, runVars >>

\* if not prepare_test_images(): return; then the menu
AfterPrepare ==
    /\ pc = "prep_returned"
    /\ pc' = IF prep_ret = "True" THEN "choose" ELSE "returned_early"
    /\ UNCHANGED << mainVars, dlVars, imgVars, runVars >>

\* What the user may type at the menu, stripped.
Choices == {"1", "2", "3", "4", ""}

\* choice "1", "2", or anything but "3"
ChoosePreset ==
    /\ pc = "choose"
    /\ \E choice \in Choices \ {"3"} :
          noise_levels' = CASE choice = "1" -> <<25>>
                            [] choice = "2" -> <<15, 25, 50>>
                            [] OTHER        -> <<25>>
    /\ pc' = "ask_tile"
    /\ UNCHANGED << use_tile, nl_i, results_summary, invocations, active, proc,
                    outcomes, fs, advised, mainVars, dlVars, imgVars >>

\* What the user may type as the custom list.
CustomLines ==
    { <<>>,
      <<"2","5"," ","2","5">>,
      <<"1","5"," ","3","0">>,
      <<" ","0","1","5"," "," ">>,
      <<"a","b","c">>,
      <<"5","0"," ","x">> }

\* choice "3": [int(x) for x in custom.split()], a ValueError leaves main
ChooseCustom ==
    /\ pc = "choose"
    /\ \E custom \in CustomLines :
          LET tokens == Split(custom)
          IN  IF \A k \in DOMAIN tokens : IsIntLiteral(tokens[k])
              THEN /\ noise_levels' = [k \in DOMAIN tokens |-> ParseInt(tokens[k])]
                   /\ pc' = "ask_tile"
              ELSE /\ pc' = "crashed"
                   /\ UNCHANGED noise_levels
    /\ UNCHANGED << use_tile, nl_i, results_summary, invocations, active, proc,
                    outcomes, fs, advised, mainVars, dlVars, imgVars >>

\* the tile prompt, then run_denoising(noise_levels, use_tile) is called
AskTile ==
    /\ pc = "ask_tile"
    /\ use_tile' \in BOOLEAN
    /\ steps' = Append(steps, "denoise")
    /\ pc' = "denoise"
    /\ UNCHANGED << noise_levels, nl_i, results_summary, invocations, active, proc,
                    outcomes, fs, advised, ensemble_written, dlVars, imgVars >>

\* compare_results(results), then len(results) > 1
CompareResults ==
    /\ pc = "run_returned"
    /\ steps' = Append(steps, "compare")
    /\ pc' = IF Cardinality(DOMAIN results_summary) > 1 THEN "ask_ensemble" ELSE "finish"
    /\ UNCHANGED << ensemble_written, dlVars, imgVars, runVars >>

\* the ensemble prompt and create_ensemble_script()
AskEnsemble ==
    /\ pc = "ask_ensemble"
    /\ ensemble_written' \in BOOLEAN
    /\ pc' = "finish"
    /\ UNCHANGED << steps, dlVars, imgVars, runVars >>

\* the closing messages
Finish ==
    /\ pc = "finish"
    /\ pc' = "done"
    /\ UNCHANGED << mainVars, dlVars, imgVars, runVars >>

\* What model_zoo/swinir may hold when main starts.
MainZoos ==
    { NoEntries,
      [f \in ModelFiles |-> "complete"],
      [f \in {models[1], models[2]} |-> IF f = models[1] THEN "complete" ELSE "partial"] }

MainFolders ==
    { {}, {<<"a",".","j","p","g">>, <<"c",".","t","x","t">>}, {<<"e",".","J","p","g">>} }

\* What results/ may hold when main starts: nothing, or the directory an
\* earlier run made for noise 25.
MainDisks == { NoEntries, [d \in {NewDir(25)} |-> {0}] }

MainInit ==
    /\ Fresh
    /\ pc = "main"
    /\ zoo \in MainZoos
    /\ posix \in BOOLEAN
    /\ folder \in MainFolders
    /\ fs \in MainDisks

Next ==
    \/ SetupDirectories
    \/ CallDownload
    \/ DownloadSkip
    \/ DownloadOk
    \/ DownloadRequestFails
    \/ DownloadInterrupted
    \/ DownloadReturn
    \/ AfterDownload
    \/ PrepareAsk
    \/ PrepareFound
    \/ PrepareScan
    \/ AfterPrepare
    \/ ChoosePreset
    \/ ChooseCustom
    \/ AskTile
    \/ RunLaunch
    \/ ProgramExit
    \/ RunSucceeded
    \/ RunFailed
    \/ RunReturn
    \/ CompareResults
    \/ AskEnsemble
    \/ Finish

Spec == MainInit /\ [][Next]_vars

(***************************************************************************)
(* The claims                                                              *)
(***************************************************************************)
Range(seq) == {seq[i] : i \in DOMAIN seq}

IsPrefix(a, b) == Len(a) <= Len(b) /\ SubSeq(b, 1, Len(a)) = a

\* The invocations that exited 0, and those that also left their directory.
Succeeded == {i \in DOMAIN outcomes : outcomes[i].rc = 0}

Delivered == {i \in Succeeded : outcomes[i].found}

\* C1 (as stated): when run_denoising returns, the mapping has as many
\* entries as invocations exited 0, and its keys are the noise levels whose
\* invocation exited 0.
C1_OneEntryPerSuccess ==
    pc = "run_returned" =>
        /\ Cardinality(DOMAIN results_summary) = Cardinality(Succeeded)
        /\ DOMAIN results_summary = {outcomes[i].noise : i \in Succeeded}

\* C1 (amended): the keys of the mapping are exactly the noise levels some
\* invocation of which exited 0 and left results/swinir_color_dn_noise{N}
\* on disk, each mapped to results/project_denoised_noise{N}; the mapping
\* has one entry per distinct such level, so at most one per success.
C1_EntriesAreDeliveredLevels ==
    /\ DOMAIN results_summary = {outcomes[i].noise : i \in Delivered}
    /\ \A n \in DOMAIN results_summary : results_summary[n] = NewDir(n)
    /\ Cardinality(DOMAIN results_summary) <= Cardinality(Succeeded)

\* A run of three invocations: one failed, one exited 0 without its
\* directory, one exited 0 with it.
C1_Witness ==
    /\ pc = "run_returned"
    /\ Len(outcomes) = 3
    /\ \E i \in DOMAIN outcomes : outcomes[i].rc # 0
    /\ Succeeded \ Delivered # {}
    /\ Cardinality(DOMAIN results_summary) = 1

\* C2: a weight file that is on disk when its turn comes is passed over: no
\* request is issued, the disk is unchanged, and the loop moves on.
C2_ExistingFileIsNotRequested ==
    [][ (pc = "download" /\ dl_i <= Len(models) /\ models[dl_i] \in DOMAIN zoo)
          => (requests' = requests /\ zoo' = zoo /\ dl_i' = dl_i + 1) ]_vars

\* One file was passed over in a run in which another was requested.
C2_Witness ==
    /\ skipped # {}
    /\ requests # <<>>
    /\ Range(requests) \cap skipped = {}

\* C3: once a download has raised, download_models has returned False and
\* the failing request is the last one issued; it returns False only then,
\* and True only when every file was on disk or fetched without error.
C3_FailureEndsTheDownloads ==
    /\ dl_failed # 0 =>
          /\ pc = "dl_returned"
          /\ dl_ret = "False"
          /\ Len(requests) = dl_failed
    /\ dl_ret = "False" => dl_failed # 0
    /\ dl_ret = "True" =>
          /\ dl_failed = 0
          /\ \A f \in ModelFiles : f \in skipped \/ f \in Range(requests)
          /\ \A f \in Range(requests) : zoo[f] = "complete"

\* The second file failed and the third, absent, was never asked for.
C3_Witness ==
    /\ dl_ret = "False"
    /\ dl_failed = 2
    /\ models[3] \notin DOMAIN zoo
    /\ models[3] \notin Range(requests)

\* C4: main ends by an early return, taken only after download_models
\* returned False or prepare_test_images found nothing, or by reaching the
\* closing messages; it never ends otherwise.
C4_MainReturnsEarlyOrCompletes ==
    /\ pc # "crashed"
    /\ pc = "returned_early" => (dl_ret = "False" \/ prep_ret = "False")

\* C5: after a nonzero exit the handler adds no entry and touches no
\* directory, and goes on to the next level whatever stderr holds; when
\* run_denoising returns, every requested level was launched once, in
\* order, with the command its level and use_tile determine.
C5_FailureSkipsOnlyThatLevel ==
    [][ /\ (pc = "exited" /\ proc.rc # 0) =>
              /\ results_summary' = results_summary
              /\ fs' = fs
              /\ invocations' = invocations
              /\ nl_i' = nl_i + 1
              /\ pc' = "denoise"
        /\ pc' = "run_returned" =>
              invocations' = [i \in DOMAIN noise_levels |-> Cmd(noise_levels[i], use_tile)]
      ]_vars

\* A failure that drew the tile advice, one that did not, and a later
\* invocation that delivered.
C5_Witness ==
    /\ pc = "run_returned"
    /\ \E i, j, k \in DOMAIN outcomes :
          /\ i < k /\ j < k
          /\ outcomes[i].rc # 0 /\ i \in advised
          /\ outcomes[j].rc # 0 /\ j \notin advised
          /\ k \in Delivered

\* C6: when an invocation has exited 0, its output directory is on disk and
\* the destination exists already, the destination afterwards holds exactly
\* what the output directory held, none of the files the destination held
\* before, and the output directory is gone.
C6_DestinationIsReplaced ==
    [][ (/\ pc = "exited"
         /\ proc.rc = 0
         /\ OldDir(CurNoise) \in DOMAIN fs
         /\ NewDir(CurNoise) \in DOMAIN fs)
          => /\ NewDir(CurNoise) \in DOMAIN fs'
             /\ fs'[NewDir(CurNoise)] = fs[OldDir(CurNoise)]
             /\ fs'[NewDir(CurNoise)] \cap fs[NewDir(CurNoise)] = {}
             /\ OldDir(CurNoise) \notin DOMAIN fs' ]_vars

\* The destination of noise 25 held files of an earlier run, the program
\* then delivered, and the destination now holds that invocation's files.
C6_Witness ==
    \E i \in Delivered :
        /\ Len(outcomes) = i
        /\ pc = "denoise"
        /\ outcomes[i].had_new
        /\ fs[NewDir(outcomes[i].noise)] = {i}
        /\ OldDir(outcomes[i].noise) \notin DOMAIN fs

\* Whether name carries an allow-listed extension, letter case ignored.
IsImageName(name) ==
    \E k \in DOMAIN image_extensions : EndsWith(StrLower(name), image_extensions[k])

\* C7: the count reported is the number of files with an allow-listed
\* extension, letter case ignored, and True is returned exactly when that
\* number is positive.
C7_CountsEveryImageOnce ==
    pc = "prep_returned" =>
        /\ Len(images) = Cardinality({name \in folder : IsImageName(name)})
        /\ prep_ret = "True" <=> Len(images) > 0

\* C8: every command launched names one of the levels 15, 25, 50 and a
\* weight file that is on disk.
C8_LaunchedLevelsHaveWeights ==
    \A i \in DOMAIN invocations :
        /\ invocations[i].noise \in {<<"1","5">>, <<"2","5">>, <<"5","0">>}
        /\ invocations[i].model_path \in DOMAIN zoo

\* C9: a file whose write was cut short stays on disk, truncated; the only
\* request ever made for it is the one that failed, and every run whose
\* loop has passed it afterwards has skipped it, so that a later run can
\* return True with the file still truncated.
C9_TruncatedFileIsTakenAsDownloaded ==
    \A f \in interrupted :
        /\ f \in DOMAIN zoo
        /\ zoo[f] = "partial"
        /\ f \in Range(requests) => (dl_failed # 0 /\ requests[dl_failed] = f)
        /\ dl_i > LetterIndex(models, f) => f \in skipped

\* The second run returned True over a file the first run left truncated.
C9_Witness ==
    /\ runs = 2
    /\ pc = "dl_returned"
    /\ dl_ret = "True"
    /\ \E f \in interrupted : zoo[f] = "partial" /\ f \in skipped

MainSteps == <<"setup", "download", "images", "denoise", "compare">>

\* C10: main enters its steps in the order setup, download, image
\* discovery, denoising, comparison; nothing is launched unless
\* download_models and prepare_test_images both returned True; the
\* launches follow the requested list, one per entry and in order, all of
\* them made by the time run_denoising returns, and a launch is made only
\* when every earlier one has exited.
C10_StepsAndLaunchesInOrder ==
    /\ IsPrefix(steps, MainSteps)
    /\ invocations # <<>> => (dl_ret = "True" /\ prep_ret = "True")
    /\ IsPrefix(invocations, [i \in DOMAIN noise_levels |-> Cmd(noise_levels[i], use_tile)])
    /\ pc \in {"run_returned", "ask_ensemble", "finish", "done"} =>
          Len(invocations) = Len(noise_levels)
    /\ active \in {0, 1}
    /\ active = 1 <=> pc = "running"
    /\ Len(outcomes) = Len(invocations) - (IF pc \in {"running", "exited"} THEN 1 ELSE 0)

\* A complete run that launched the three preset levels.
C10_Witness ==
    /\ pc = "done"
    /\ steps = MainSteps
    /\ Len(invocations) = 3
    /\ Len(outcomes) = 3

====
